---- MODULE Spec2Model ----
(***************************************************************************)
(* A model of mortgagekit/calculator.py: the MortgageCalculator class.     *)
(*                                                                         *)
(* Numbers.  Money amounts are integers (whole currency units).  Rates and *)
(* the other floating-point values of the payment formula are fixed-point  *)
(* integers counting units of 1/Scale, every product and quotient rounded  *)
(* down; this stands for the float arithmetic the code marks as losing     *)
(* precision.  The quotients the code takes in Decimal arithmetic (the     *)
(* normalised payments, the percent financed) are kept exact, as pairs     *)
(* <<numerator, denominator>>.                                             *)
(*                                                                         *)
(* Calls.  Every method call is one action; its outcome is left in         *)
(* `result`: [op, kind |-> "return", value] or [op, kind |-> "raise",      *)
(* error].  Init is the state after MortgageCalculator(...) was called.    *)
(***************************************************************************)
EXTENDS Integers, Sequences, FiniteSets, TLC

VARIABLES
    self,      \* the calculator object, or NoObject when __init__ raised
    argv,      \* the first_payment_date argument __init__ was called with
    result     \* the outcome of the last call

vars == <<self, argv, result>>

---------------------------------------------------------------------------
(* Bounds of the model. *)

\* amortization_year ranges over 0..MaxYears
MaxYears == 2

\* total and down payment range over AmountUnit * (0..MaxUnits)
MaxUnits == 1

---------------------------------------------------------------------------
(* Program constants. *)

MORTGAGEKIT_ANNUAL == 1
MORTGAGEKIT_SEMI_ANNUAL == 2
MORTGAGEKIT_QUARTER == 4
MORTGAGEKIT_BI_MONTH == 6
MORTGAGEKIT_MONTH == 12
MORTGAGEKIT_BI_WEEK == 26
MORTGAGEKIT_WEEK == 52

\* The seven enumerated frequencies.
Frequencies ==
    { MORTGAGEKIT_ANNUAL, MORTGAGEKIT_SEMI_ANNUAL, MORTGAGEKIT_QUARTER,
      MORTGAGEKIT_BI_MONTH, MORTGAGEKIT_MONTH, MORTGAGEKIT_BI_WEEK,
      MORTGAGEKIT_WEEK }

\* One unit of the fixed-point representation of a float is 1/Scale.
Scale == 10000

\* Money amounts given to the constructor are multiples of AmountUnit.
AmountUnit == 50000

---------------------------------------------------------------------------
(* Outcomes of a call. *)

Return(v) == [kind |-> "return", value |-> v]
Raise(e) == [kind |-> "raise", error |-> e]

UnsupportedFrequency == "Exception: WARNING: Unsupported payment frequency type!"

---------------------------------------------------------------------------
(* Calendar dates, <<year, month, day>>, as datetime.date keeps them. *)

IsLeap(y) == (y % 4 = 0) /\ ((y % 100 # 0) \/ (y % 400 = 0))

DaysInMonth(y, m) ==
    IF m = 2 THEN (IF IsLeap(y) THEN 29 ELSE 28)
    ELSE IF m \in {4, 6, 9, 11} THEN 30 ELSE 31

Min(a, b) == IF a <= b THEN a ELSE b

\* date + relativedelta(months=k): the month moves, the year carries, and
\* the day is cut down to the last day of the month reached.
AddMonths(d, k) ==
    LET t == (d[2] - 1) + k
        y == d[1] + (t \div 12)
        m == (t % 12) + 1
    IN  <<y, m, Min(d[3], DaysInMonth(y, m))>>

\* date + relativedelta(years=k)
AddYears(d, k) ==
    LET y == d[1] + k
    IN  <<y, d[2], Min(d[3], DaysInMonth(y, d[2]))>>

NextDay(d) ==
    IF d[3] < DaysInMonth(d[1], d[2]) THEN <<d[1], d[2], d[3] + 1>>
    ELSE IF d[2] < 12 THEN <<d[1], d[2] + 1, 1>>
    ELSE <<d[1] + 1, 1, 1>>

RECURSIVE AddDays(_, _)
\* date + timedelta(days=n), n >= 0
AddDays(d, n) == IF n = 0 THEN d ELSE AddDays(NextDay(d), n - 1)

\* date + relativedelta(weeks=w)
AddWeeks(d, w) == AddDays(d, 7 * w)

---------------------------------------------------------------------------
(* datetime.strptime(s, "%Y-%m-%d").date()                                 *)
(* An argument is [type |-> "str", chars |-> <<"2", "0", ...>>], or a      *)
(* value of another type.  The format compiles to the regular expression   *)
(*   (\d\d\d\d)-(1[0-2]|0[1-9]|[1-9])-(3[01]|[12]\d|0[1-9]|[1-9]| [1-9])   *)
(* matched at the start of the string; text left over after the match is   *)
(* an error, and so is a day the month does not have, or the year 0.       *)

Digits == {"0", "1", "2", "3", "4", "5", "6", "7", "8", "9"}

DigitVal(c) ==
    CASE c = "0" -> 0 [] c = "1" -> 1 [] c = "2" -> 2 [] c = "3" -> 3
      [] c = "4" -> 4 [] c = "5" -> 5 [] c = "6" -> 6 [] c = "7" -> 7
      [] c = "8" -> 8 [] c = "9" -> 9

\* the character at position i, or "" past the end
At(s, i) == IF i >= 1 /\ i <= Len(s) THEN s[i] ELSE ""

\* %m at position i: <<value, next position>>, or <<>> when nothing matches
MatchMonth(s, i) ==
    LET a == At(s, i)
        b == At(s, i + 1)
    IN  IF a = "1" /\ b \in {"0", "1", "2"} THEN <<10 + DigitVal(b), i + 2>>
        ELSE IF a = "0" /\ b \in (Digits \ {"0"}) THEN <<DigitVal(b), i + 2>>
        ELSE IF a \in (Digits \ {"0"}) THEN <<DigitVal(a), i + 1>>
        ELSE <<>>

\* %d at position i
MatchDay(s, i) ==
    LET a == At(s, i)
        b == At(s, i + 1)
    IN  IF a = "3" /\ b \in {"0", "1"} THEN <<30 + DigitVal(b), i + 2>>
        ELSE IF a \in {"1", "2"} /\ b \in Digits
            THEN <<10 * DigitVal(a) + DigitVal(b), i + 2>>
        ELSE IF a = "0" /\ b \in (Digits \ {"0"}) THEN <<DigitVal(b), i + 2>>
        ELSE IF a \in (Digits \ {"0"}) THEN <<DigitVal(a), i + 1>>
        ELSE IF a = " " /\ b \in (Digits \ {"0"}) THEN <<DigitVal(b), i + 2>>
        ELSE <<>>

\* %Y at position 1: four digits
MatchYear(s) ==
    IF \A i \in 1..4 : At(s, i) \in Digits
    THEN <<1000 * DigitVal(s[1]) + 100 * DigitVal(s[2])
             + 10 * DigitVal(s[3]) + DigitVal(s[4]), 5>>
    ELSE <<>>

strptime(arg) ==
    IF arg.type # "str" THEN Raise("TypeError")
    ELSE
      LET s == arg.chars
          Y == MatchYear(s)
          m == IF Y # <<>> /\ At(s, 5) = "-" THEN MatchMonth(s, 6) ELSE <<>>
          d == IF m # <<>> /\ At(s, m[2]) = "-"
               THEN MatchDay(s, m[2] + 1) ELSE <<>>
      IN  IF d = <<>> THEN Raise("ValueError")             \* does not match format
          ELSE IF d[2] # Len(s) + 1 THEN Raise("ValueError")  \* unconverted data remains
          ELSE IF Y[1] < 1 THEN Raise("ValueError")        \* year 0 is out of range
          ELSE IF d[1] > DaysInMonth(Y[1], m[1]) THEN Raise("ValueError")
          ELSE Return(<<Y[1], m[1], d[1]>>)

---------------------------------------------------------------------------
(* Values. *)

\* Money(amount=a, currency=...): an object, never the integer 0 itself.
Money(a) == [type |-> "Money", amount |-> a]

\* A plain int.
PyInt(a) == [type |-> "int", amount |-> a]

\* v is 0: identity with the int 0.  A Money is never the int 0.
Is0(v) == v.type = "int" /\ v.amount = 0

NoObject == [class |-> "NoneType"]

\* MortgageCalculator.__init__: <<outcome, object>>
__init__(total_amount, down_payment_amount, amortization_year, annual_interest_rate, payment_frequency, compounding_period, first_payment_date) ==
    LET parsed == strptime(first_payment_date)
    IN  IF parsed.kind = "raise" THEN <<parsed, NoObject>>
        ELSE <<Return(<<>>),
               [class |-> "MortgageCalculator",
                _total_amount |-> Money(total_amount),
                _down_payment_amount |-> Money(down_payment_amount),
                _loan_amount |-> Money(total_amount - down_payment_amount),
                _amortization_year |-> amortization_year,
                _annual_interest_rate |-> annual_interest_rate,
                _payment_frequency |-> payment_frequency,
                _compounding_period |-> compounding_period,
                _first_payment_date |-> parsed.value]>>

---------------------------------------------------------------------------
(* Fixed-point arithmetic standing for the float steps of the code. *)

FMul(a, b) == (a * b) \div Scale

RECURSIVE FPow(_, _)
\* b to the power n, n >= 0, by repeated squaring
FPow(b, n) ==
    IF n = 0 THEN Scale
    ELSE LET h == FPow(b, n \div 2)
             sq == FMul(h, h)
         IN  IF n % 2 = 0 THEN sq ELSE FMul(sq, b)

\* math.pow(b, n) for an integer n >= 0
Pow(b, n) == FPow(b, n)

RECURSIVE FPowCapped(_, _, _)
\* FPow(b, n), given up as soon as it exceeds cap
FPowCapped(b, n, cap) ==
    IF n = 0 THEN Scale
    ELSE LET h == FPowCapped(b, n \div 2, cap)
             sq == FMul(h, h)
         IN  IF h > cap THEN h
             ELSE IF n % 2 = 0 \/ sq > cap THEN sq
             ELSE FMul(sq, b)

RECURSIVE Bisect(_, _, _, _)
\* the largest z in lo..hi with z^f <= t
Bisect(lo, hi, f, t) ==
    IF lo >= hi THEN lo
    ELSE LET mid == (lo + hi + 1) \div 2
         IN  IF FPowCapped(mid, f, t) <= t THEN Bisect(mid, hi, f, t)
             ELSE Bisect(lo, mid - 1, f, t)

\* math.pow(x, c / f) for x >= 1.0, c >= 1 and f >= 1: the f-th root of x^c
PowRatio(x, c, f) ==
    LET t == FPow(x, c)
    IN  Bisect(Scale, t, f, t)

---------------------------------------------------------------------------
(* The methods, as operators of the object o: each gives the outcome. *)

get_payment_frequency(o) == Return(o._payment_frequency)

percent_of_loan_financed(o) ==
    LET loanPurchaseAmount == o._total_amount
        downPayment == o._down_payment_amount
    IN  IF Is0(loanPurchaseAmount) THEN Return(<<0, 1>>)
        ELSE LET loanAmount == loanPurchaseAmount.amount - downPayment.amount
             IN  IF loanPurchaseAmount.amount = 0
                 THEN Raise(IF loanAmount = 0 THEN "decimal.InvalidOperation"
                                              ELSE "decimal.DivisionByZero")
                 ELSE Return(<<loanAmount * 100, loanPurchaseAmount.amount>>)

interest_rate_per_payment_frequency(o) ==
    LET compoundingPeriod == o._compounding_period
        annualInterestRate == o._annual_interest_rate
        paymentFrequency == o._payment_frequency
    IN  IF paymentFrequency = 0 THEN Raise("ZeroDivisionError")
        ELSE IF compoundingPeriod = 0
            THEN Raise(IF annualInterestRate = 0 THEN "decimal.InvalidOperation"
                                                 ELSE "decimal.DivisionByZero")
        ELSE LET x == (annualInterestRate \div compoundingPeriod) + Scale
                 z == PowRatio(x, compoundingPeriod, paymentFrequency)
             IN  Return(z - Scale)

total_number_of_payments_per_frequency(o) ==
    Return(o._amortization_year * o._payment_frequency)

\* top of the payment formula: r * (r + 1)^n
Numerator(r, n) == FMul(r, Pow(r + Scale, n))

\* bottom of the payment formula: (r + 1)^n - 1
Denominator(r, n) == Pow(r + Scale, n) - Scale

\* The same method without its `if bottom == 0` guard: the division raises.
mortgage_payment_per_payment_frequency_unguarded(o) ==
    LET rr == interest_rate_per_payment_frequency(o)
    IN  IF rr.kind = "raise" THEN rr
        ELSE LET r == rr.value
                 n == total_number_of_payments_per_frequency(o).value
                 p == o._loan_amount.amount
                 top == Numerator(r, n)
                 bottom == Denominator(r, n)
             IN  IF bottom = 0 THEN Raise("ZeroDivisionError")
                 ELSE Return(FMul((top * Scale) \div bottom, p))

mortgage_payment_per_payment_frequency(o) ==
    LET rr == interest_rate_per_payment_frequency(o)
    IN  IF rr.kind = "raise" THEN rr
        ELSE LET r == rr.value
                 n == total_number_of_payments_per_frequency(o).value
                 p == o._loan_amount.amount
                 top == Numerator(r, n)
                 bottom == Denominator(r, n)
             IN  IF bottom = 0 THEN Return(0)
                 ELSE Return(FMul((top * Scale) \div bottom, p))
\* The date step with a quarter of three months.
NextPaymentDate_quarter3(payment_frequency, current_payment_date) ==
    IF payment_frequency = MORTGAGEKIT_ANNUAL
        THEN AddYears(current_payment_date, 1)
    ELSE IF payment_frequency = MORTGAGEKIT_SEMI_ANNUAL
        THEN AddMonths(current_payment_date, 6)
    ELSE IF payment_frequency = MORTGAGEKIT_QUARTER
        THEN AddMonths(current_payment_date, 3)
    ELSE IF payment_frequency = MORTGAGEKIT_BI_MONTH
        THEN AddMonths(current_payment_date, 2)
    ELSE IF payment_frequency = MORTGAGEKIT_MONTH
        THEN AddMonths(current_payment_date, 1)
    ELSE IF payment_frequency = MORTGAGEKIT_BI_WEEK
        THEN AddWeeks(current_payment_date, 2)
    ELSE IF payment_frequency = MORTGAGEKIT_WEEK
        THEN AddWeeks(current_payment_date, 1)
    ELSE current_payment_date

\* The step of the payment date for one payment (the if/elif chain of the
\* loop body; it has no else: any other frequency leaves the date alone).
\* The chain compares with `is`; _payment_frequency and the constants are
\* ints below 257, for which CPython's identity is equality.
NextPaymentDate(payment_frequency, current_payment_date) ==
    IF payment_frequency = MORTGAGEKIT_ANNUAL
        THEN AddYears(current_payment_date, 1)
    ELSE IF payment_frequency = MORTGAGEKIT_SEMI_ANNUAL
        THEN AddMonths(current_payment_date, 6)
    ELSE IF payment_frequency = MORTGAGEKIT_QUARTER
        THEN AddMonths(current_payment_date, 4)
    ELSE IF payment_frequency = MORTGAGEKIT_BI_MONTH
        THEN AddMonths(current_payment_date, 2)
    ELSE IF payment_frequency = MORTGAGEKIT_MONTH
        THEN AddMonths(current_payment_date, 1)
    ELSE IF payment_frequency = MORTGAGEKIT_BI_WEEK
        THEN AddWeeks(current_payment_date, 2)
    ELSE IF payment_frequency = MORTGAGEKIT_WEEK
        THEN AddWeeks(current_payment_date, 1)
    ELSE current_payment_date

\* The loop body with the total paid to the bank adding up the principal
\* portions instead of the payments.
LoopBody_totalOfPrinciple(o, st, amortizationYear, payment) ==
    LET interestAmount == FMul(st.loanBalance, st.interestRatePerPayment)
        principleAmount == st.mortgagePayment - interestAmount
        loanBalance == st.loanBalance - principleAmount
        totalPaidToInterest == interestAmount + st.totalPaidToInterest
        totalPaidToBank == principleAmount + st.totalPaidToBank
        current_payment_date ==
            NextPaymentDate(o._payment_frequency, st.current_payment_date)
    IN  [st EXCEPT
           !.loanBalance = loanBalance,
           !.totalPaidToInterest = totalPaidToInterest,
           !.totalPaidToBank = totalPaidToBank,
           !.current_payment_date = current_payment_date,
           !.paymentSchedule = Append(@,
               [year |-> amortizationYear,
                interval |-> payment,
                payment |-> st.mortgagePayment,
                interest |-> interestAmount,
                principle |-> principleAmount,
                loan_balance |-> loanBalance,
                totalPaidToInterest |-> totalPaidToInterest,
                totalPaidToBank |-> totalPaidToBank,
                paymentData |-> current_payment_date])]

\* The loop body with the balance reduced by the whole payment instead of
\* its principal portion.
LoopBody_balanceLessPayment(o, st, amortizationYear, payment) ==
    LET interestAmount == FMul(st.loanBalance, st.interestRatePerPayment)
        principleAmount == st.mortgagePayment - interestAmount
        loanBalance == st.loanBalance - st.mortgagePayment
        totalPaidToInterest == interestAmount + st.totalPaidToInterest
        totalPaidToBank == st.mortgagePayment + st.totalPaidToBank
        current_payment_date ==
            NextPaymentDate(o._payment_frequency, st.current_payment_date)
    IN  [st EXCEPT
           !.loanBalance = loanBalance,
           !.totalPaidToInterest = totalPaidToInterest,
           !.totalPaidToBank = totalPaidToBank,
           !.current_payment_date = current_payment_date,
           !.paymentSchedule = Append(@,
               [year |-> amortizationYear,
                interval |-> payment,
                payment |-> st.mortgagePayment,
                interest |-> interestAmount,
                principle |-> principleAmount,
                loan_balance |-> loanBalance,
                totalPaidToInterest |-> totalPaidToInterest,
                totalPaidToBank |-> totalPaidToBank,
                paymentData |-> current_payment_date])]

\* One pass of the inner loop body: the locals after it, the record appended.
LoopBody(o, st, amortizationYear, payment) ==
    LET interestAmount == FMul(st.loanBalance, st.interestRatePerPayment)
        principleAmount == st.mortgagePayment - interestAmount
        loanBalance == st.loanBalance - principleAmount
        totalPaidToInterest == interestAmount + st.totalPaidToInterest
        totalPaidToBank == st.mortgagePayment + st.totalPaidToBank
        current_payment_date ==
            NextPaymentDate(o._payment_frequency, st.current_payment_date)
    IN  [st EXCEPT
           !.loanBalance = loanBalance,
           !.totalPaidToInterest = totalPaidToInterest,
           !.totalPaidToBank = totalPaidToBank,
           !.current_payment_date = current_payment_date,
           !.paymentSchedule = Append(@,
               [year |-> amortizationYear,
                interval |-> payment,
                payment |-> st.mortgagePayment,
                interest |-> interestAmount,
                principle |-> principleAmount,
                loan_balance |-> loanBalance,
                totalPaidToInterest |-> totalPaidToInterest,
                totalPaidToBank |-> totalPaidToBank,
                paymentData |-> current_payment_date])]

\* The inner range one short: range(1, self._payment_frequency).
PaymentRangeEnd_short(o) == o._payment_frequency

\* for payment in range(1, self._payment_frequency+1): the upper end
PaymentRangeEnd(o) == o._payment_frequency + 1

\* for amortizationYear in range(1, self._amortization_year+1): the upper end
YearRangeEnd(o) == o._amortization_year + 1

\* TLC evaluates an operator's arguments only when they are used; a loop
\* passes its locals on evaluated, which this test of a field brings about.
Evaluated(st) == Len(st.paymentSchedule) >= 0

RECURSIVE InnerLoop(_, _, _, _)
\* the inner loop from `payment` on
InnerLoop(o, st, amortizationYear, payment) ==
    IF payment >= PaymentRangeEnd(o) THEN st
    ELSE LET after == LoopBody(o, st, amortizationYear, payment)
         IN  IF Evaluated(after)
             THEN InnerLoop(o, after, amortizationYear, payment + 1)
             ELSE after

RECURSIVE OuterLoop(_, _, _)
\* the outer loop from `amortizationYear` on
OuterLoop(o, st, amortizationYear) ==
    IF amortizationYear >= YearRangeEnd(o) THEN st
    ELSE LET after == InnerLoop(o, st, amortizationYear, 1)
         IN  IF Evaluated(after)
             THEN OuterLoop(o, after, amortizationYear + 1)
             ELSE after

mortgage_payment_schedule(o) ==
    LET mp == mortgage_payment_per_payment_frequency(o)
    IN  IF mp.kind = "raise" THEN mp
        ELSE LET st0 == [mortgagePayment |-> mp.value,
                         interestRatePerPayment |->
                             interest_rate_per_payment_frequency(o).value,
                         loanBalance |-> o._loan_amount.amount,
                         totalPaidToInterest |-> 0,
                         totalPaidToBank |-> 0,
                         current_payment_date |-> o._first_payment_date,
                         paymentSchedule |-> <<>>]
             IN  Return(OuterLoop(o, st0, 1).paymentSchedule)
\* "No value yet" of a local set to None.
None == <<>>

\* The first if/elif chain of monthly_mortgage_payment (no else).
MonthlyFirstChain(frequency, mortgage_payment) ==
    IF frequency = MORTGAGEKIT_ANNUAL
        THEN <<mortgage_payment, MORTGAGEKIT_MONTH>>
    ELSE IF frequency = MORTGAGEKIT_SEMI_ANNUAL
        THEN <<mortgage_payment, MORTGAGEKIT_BI_MONTH>>
    ELSE IF frequency = MORTGAGEKIT_QUARTER
        THEN <<mortgage_payment, MORTGAGEKIT_QUARTER>>
    ELSE IF frequency = MORTGAGEKIT_BI_MONTH
        THEN <<mortgage_payment, MORTGAGEKIT_SEMI_ANNUAL>>
    ELSE None

\* The second chain with its else returning what is assigned so far, the
\* payment itself when nothing is: a silent default instead of the raise.
MonthlySecondChain_default(frequency, mortgage_payment, assigned) ==
    IF frequency = MORTGAGEKIT_MONTH
        THEN Return(<<mortgage_payment, 1>>)
    ELSE IF frequency = MORTGAGEKIT_BI_WEEK
        THEN Return(<<mortgage_payment * MORTGAGEKIT_BI_WEEK, MORTGAGEKIT_MONTH>>)
    ELSE IF frequency = MORTGAGEKIT_WEEK
        THEN Return(<<mortgage_payment * MORTGAGEKIT_WEEK, MORTGAGEKIT_MONTH>>)
    ELSE IF assigned # None THEN Return(assigned)
    ELSE Return(<<mortgage_payment, 1>>)

\* The second chain, a new `if`: it ends in the else that raises, whatever
\* the first chain assigned (`assigned`, which no branch reads).
MonthlySecondChain(frequency, mortgage_payment, assigned) ==
    IF frequency = MORTGAGEKIT_MONTH
        THEN Return(<<mortgage_payment, 1>>)
    ELSE IF frequency = MORTGAGEKIT_BI_WEEK
        THEN Return(<<mortgage_payment * MORTGAGEKIT_BI_WEEK, MORTGAGEKIT_MONTH>>)
    ELSE IF frequency = MORTGAGEKIT_WEEK
        THEN Return(<<mortgage_payment * MORTGAGEKIT_WEEK, MORTGAGEKIT_MONTH>>)
    ELSE Raise(UnsupportedFrequency)

monthly_mortgage_payment(o) ==
    LET mp == mortgage_payment_per_payment_frequency(o)
    IN  IF mp.kind = "raise" THEN mp
        ELSE LET frequency == o._payment_frequency
                 first == MonthlyFirstChain(frequency, mp.value)
             IN  MonthlySecondChain(frequency, mp.value, first)

\* The first if/elif chain of annual_mortgage_payment (no else).
AnnualFirstChain(frequency, mortgage_payment) ==
    IF frequency = MORTGAGEKIT_ANNUAL
        THEN <<mortgage_payment, 1>>
    ELSE IF frequency = MORTGAGEKIT_SEMI_ANNUAL
        THEN <<mortgage_payment * MORTGAGEKIT_SEMI_ANNUAL, 1>>
    ELSE IF frequency = MORTGAGEKIT_QUARTER
        THEN <<mortgage_payment * MORTGAGEKIT_QUARTER, 1>>
    ELSE IF frequency = MORTGAGEKIT_BI_MONTH
        THEN <<mortgage_payment * MORTGAGEKIT_BI_MONTH, 1>>
    ELSE None

\* The second chain of annual_mortgage_payment.
AnnualSecondChain(frequency, mortgage_payment, assigned) ==
    IF frequency = MORTGAGEKIT_MONTH
        THEN Return(<<mortgage_payment * MORTGAGEKIT_MONTH, 1>>)
    ELSE IF frequency = MORTGAGEKIT_BI_WEEK
        THEN Return(<<mortgage_payment * MORTGAGEKIT_BI_WEEK, 1>>)
    ELSE IF frequency = MORTGAGEKIT_WEEK
        THEN Return(<<mortgage_payment * MORTGAGEKIT_WEEK, 1>>)
    ELSE Raise(UnsupportedFrequency)

annual_mortgage_payment(o) ==
    LET mp == mortgage_payment_per_payment_frequency(o)
    IN  IF mp.kind = "raise" THEN mp
        ELSE LET frequency == o._payment_frequency
                 first == AnnualFirstChain(frequency, mp.value)
             IN  AnnualSecondChain(frequency, mp.value, first)

---------------------------------------------------------------------------
(* The arguments the constructor is called with. *)

Amounts == { AmountUnit * k : k \in 0..MaxUnits }

Years == 0..MaxYears

\* annual interest rates: 0 and 0.04
AnnualInterestRates == { 0, 4 * (Scale \div 100) }

\* the seven frequencies, and values outside them
PaymentFrequencies == Frequencies \cup { 0, 3 }

CompoundingPeriods == { MORTGAGEKIT_SEMI_ANNUAL, MORTGAGEKIT_MONTH }

Str(chars) == [type |-> "str", chars |-> chars]

FirstPaymentDates ==
    { Str(<<"2", "0", "0", "8", "-", "0", "1", "-", "0", "1">>),
      Str(<<"2", "0", "0", "8", "-", "0", "1", "-", "3", "1">>),
      Str(<<"2", "0", "0", "8", "-", "1", "-", "1">>),
      Str(<<"2", "0", "0", "8", "-", "0", "2", "-", "3", "0">>),
      Str(<<"0", "1", "-", "0", "1", "-", "2", "0", "0", "8">>),
      Str(<<"2", "0", "0", "8", "/", "0", "1", "/", "0", "1">>),
      Str(<<"2", "0", "0", "8", "-", "0", "1", "-", "0", "1", " ">>),
      Str(<<>>),
      [type |-> "datetime", date |-> <<2008, 1, 1>>],
      [type |-> "datetime", date |-> <<2008, 1, 31>>],
      [type |-> "int", amount |-> 1234] }

---------------------------------------------------------------------------
(* The state machine. *)

Call(op, outcome) == [op |-> op] @@ outcome

Init ==
    \E total_amount \in Amounts, down_payment_amount \in Amounts,
       amortization_year \in Years,
       annual_interest_rate \in AnnualInterestRates,
       payment_frequency \in PaymentFrequencies,
       compounding_period \in CompoundingPeriods,
       first_payment_date \in FirstPaymentDates :
        LET made == __init__(total_amount, down_payment_amount,
                             amortization_year, annual_interest_rate,
                             payment_frequency, compounding_period,
                             first_payment_date)
        IN  /\ argv = first_payment_date
            /\ result = Call("__init__", made[1])
            /\ self = made[2]

Constructed == self.class = "MortgageCalculator"

\* A call of method `op` with outcome `outcome`: the object is left as it is.
Invoke(op, outcome) ==
    /\ Constructed
    /\ result' = Call(op, outcome)
    /\ UNCHANGED <<self, argv>>

GetPaymentFrequency ==
    Invoke("get_payment_frequency", get_payment_frequency(self))

PercentOfLoanFinanced ==
    Invoke("percent_of_loan_financed", percent_of_loan_financed(self))

InterestRatePerPaymentFrequency ==
    Invoke("interest_rate_per_payment_frequency",
           interest_rate_per_payment_frequency(self))

TotalNumberOfPaymentsPerFrequency ==
    Invoke("total_number_of_payments_per_frequency",
           total_number_of_payments_per_frequency(self))

MortgagePaymentPerPaymentFrequency ==
    Invoke("mortgage_payment_per_payment_frequency",
           mortgage_payment_per_payment_frequency(self))

MortgagePaymentSchedule ==
    Invoke("mortgage_payment_schedule", mortgage_payment_schedule(self))

MonthlyMortgagePayment ==
    Invoke("monthly_mortgage_payment", monthly_mortgage_payment(self))

AnnualMortgagePayment ==
    Invoke("annual_mortgage_payment", annual_mortgage_payment(self))

\* The test's `self.calc._total_amount = 0`: the field becomes the int 0.
OverrideTotalAmount ==
    /\ Constructed
    /\ self._total_amount # PyInt(0)
    /\ self' = [self EXCEPT !._total_amount = PyInt(0)]
    /\ result' = Call("override_total_amount", Return(None))
    /\ UNCHANGED argv

Next ==
    \/ GetPaymentFrequency
    \/ PercentOfLoanFinanced
    \/ InterestRatePerPaymentFrequency
    \/ TotalNumberOfPaymentsPerFrequency
    \/ MortgagePaymentPerPaymentFrequency
    \/ MortgagePaymentSchedule
    \/ MonthlyMortgagePayment
    \/ AnnualMortgagePayment
    \/ OverrideTotalAmount

Spec == Init /\ [][Next]_vars

---------------------------------------------------------------------------
(* Properties. *)

\* The last call was method `op` of a constructed calculator.
Called(op) == Constructed /\ result.op = op

Returned(op) == Called(op) /\ result.kind = "return"

RECURSIVE Gcd(_, _)
Gcd(a, b) == IF b = 0 THEN a ELSE Gcd(b, a % b)

Abs(a) == IF a < 0 THEN -a ELSE a

\* A quotient <<n, d>>, d > 0, in lowest terms.
Lowest(q) ==
    LET g == Gcd(Abs(q[1]), q[2])
    IN  <<q[1] \div g, q[2] \div g>>

\* Two quotients are the same number.
SameNumber(q1, q2) == Lowest(q1) = Lowest(q2)

\* C1: for a term of term_years >= 0 and a payment frequency f >= 1 the
\* schedule holds exactly term_years * f records, the number
\* total_number_of_payments_per_frequency returns; the record at 0-based
\* position k has year (k div f) + 1 and interval (k mod f) + 1.  The length
\* is the same when the balance is zero or negative before the last period,
\* and a term of 0 years gives the empty schedule.
C1_ScheduleLengthAndOrder ==
    ( /\ Called("mortgage_payment_schedule")
      /\ self._amortization_year >= 0
      /\ self._payment_frequency >= 1 )
    => /\ result.kind = "return"
       /\ Len(result.value) = self._amortization_year * self._payment_frequency
       /\ Len(result.value) = total_number_of_payments_per_frequency(self).value
       /\ \A k \in 0..(Len(result.value) - 1) :
            /\ result.value[k + 1].year = (k \div self._payment_frequency) + 1
            /\ result.value[k + 1].interval = (k % self._payment_frequency) + 1
       /\ (self._amortization_year = 0 => result.value = <<>>)

\* C1 witness: a two-year monthly schedule of a loan whose down payment
\* exceeds the total: the balance is negative from the first record on, and
\* the schedule still holds all 24 records.
C1_Witness ==
    /\ Returned("mortgage_payment_schedule")
    /\ self._amortization_year = 2
    /\ self._payment_frequency = MORTGAGEKIT_MONTH
    /\ self._down_payment_amount.amount > self._total_amount.amount
    /\ Len(result.value) = 24
    /\ result.value[1].loan_balance < 0
    /\ result.value[24].year = 2 /\ result.value[24].interval = 12

\* The per-period payment of the calculator, when it is computed.
Payment == mortgage_payment_per_payment_frequency(self).value

\* C2: for each of the seven enumerated payment frequencies f,
\* annual_mortgage_payment returns, without raising, the per-period payment
\* multiplied by f.
C2_AnnualIsPaymentTimesFrequency ==
    ( /\ Called("annual_mortgage_payment")
      /\ self._payment_frequency \in Frequencies )
    => /\ result.kind = "return"
       /\ SameNumber(result.value, <<Payment * self._payment_frequency, 1>>)

\* The factor <<multiplier, divisor>> that turns a payment made f times a
\* year into a monthly one: Annual /12, SemiAnnual /6, Quarter /4, BiMonth /2,
\* Month *1, BiWeek *26/12, Week *52/12.
ToMonthlyFactor(f) ==
    CASE f = 1 -> <<1, 12>>
      [] f = 2 -> <<1, 6>>
      [] f = 4 -> <<1, 4>>
      [] f = 6 -> <<1, 2>>
      [] f = 12 -> <<1, 1>>
      [] f = 26 -> <<26, 12>>
      [] f = 52 -> <<52, 12>>

\* C3: for each of the seven enumerated payment frequencies,
\* monthly_mortgage_payment returns, without raising, the per-period payment
\* converted by the frequency's fixed factor.
C3_MonthlyIsPaymentByFactor ==
    ( /\ Called("monthly_mortgage_payment")
      /\ self._payment_frequency \in Frequencies )
    => /\ result.kind = "return"
       /\ SameNumber(result.value,
                     <<Payment * ToMonthlyFactor(self._payment_frequency)[1],
                       ToMonthlyFactor(self._payment_frequency)[2]>>)

\* C4: for all seven enumerated payment frequencies the two normalizations
\* of the same per-period payment agree: annual_mortgage_payment is 12 times
\* monthly_mortgage_payment.
C4_AnnualIsTwelveTimesMonthly ==
    ( /\ Called("annual_mortgage_payment")
      /\ self._payment_frequency \in Frequencies )
    => LET monthly == monthly_mortgage_payment(self)
       IN  /\ result.kind = "return"
           /\ monthly.kind = "return"
           /\ SameNumber(result.value, <<12 * monthly.value[1], monthly.value[2]>>)

Normalizers == {"monthly_mortgage_payment", "annual_mortgage_payment"}

\* C5 as stated: when the payment frequency is not one of the seven
\* enumerated values, monthly_mortgage_payment and annual_mortgage_payment
\* fail with the unsupported-frequency error and return no number.
C5_UnsupportedFrequencyError ==
    ( /\ Constructed
      /\ result.op \in Normalizers
      /\ self._payment_frequency \notin Frequencies )
    => /\ result.kind = "raise"
       /\ result.error = UnsupportedFrequency

\* C5 as amended: when the payment frequency is not one of the seven
\* enumerated values both normalizers raise and return no number: the
\* unsupported-frequency error when the frequency is not 0, and for the
\* frequency 0 the ZeroDivisionError of the rate conversion, which runs
\* before the frequency is looked at.
C5_UnsupportedFrequencyOrZeroDivision ==
    ( /\ Constructed
      /\ result.op \in Normalizers
      /\ self._payment_frequency \notin Frequencies )
    => /\ result.kind = "raise"
       /\ (self._payment_frequency # 0 => result.error = UnsupportedFrequency)
       /\ (self._payment_frequency = 0 => result.error = "ZeroDivisionError")

\* C5 witness: monthly_mortgage_payment was called with the frequency 3 and
\* raised the unsupported-frequency error, the payment itself being
\* computable.
C5_Witness ==
    /\ Called("monthly_mortgage_payment")
    /\ self._payment_frequency = 3
    /\ mortgage_payment_per_payment_frequency(self).kind = "return"
    /\ result.kind = "raise"
    /\ result.error = UnsupportedFrequency

\* C6: when the payment frequency is a non-zero value outside the seven
\* enumerated values, interest_rate_per_payment_frequency and
\* mortgage_payment_schedule fail with the unsupported-frequency error;
\* neither returns a rate or a schedule.
C6_RateAndScheduleRejectFrequency ==
    ( /\ Constructed
      /\ result.op \in {"interest_rate_per_payment_frequency",
                        "mortgage_payment_schedule"}
      /\ self._payment_frequency # 0
      /\ self._payment_frequency \notin Frequencies )
    => /\ result.kind = "raise"
       /\ result.error = UnsupportedFrequency

\* One calendar step of a payment frequency, as C7 gives it: Annual +1 year,
\* SemiAnnual +6 months, Quarter +4 months, BiMonth +2 months, Month +1 month,
\* BiWeek +2 weeks, Week +1 week.
CalendarStep(f, d) ==
    CASE f = 1 -> AddYears(d, 1)
      [] f = 2 -> AddMonths(d, 6)
      [] f = 4 -> AddMonths(d, 4)
      [] f = 6 -> AddMonths(d, 2)
      [] f = 12 -> AddMonths(d, 1)
      [] f = 26 -> AddDays(d, 14)
      [] f = 52 -> AddDays(d, 7)

\* One step from 2008-01-01, as C7 lists it for each frequency.
StepFrom20080101(f) ==
    CASE f = 1 -> <<2009, 1, 1>>
      [] f = 2 -> <<2008, 7, 1>>
      [] f = 4 -> <<2008, 5, 1>>
      [] f = 6 -> <<2008, 3, 1>>
      [] f = 12 -> <<2008, 2, 1>>
      [] f = 26 -> <<2008, 1, 15>>
      [] f = 52 -> <<2008, 1, 8>>

\* C7: in the schedule of an enumerated frequency the first record carries
\* the first payment date advanced by one calendar step of the frequency and
\* every later record the date of the record before it advanced by one step,
\* so the k-th record carries the first payment date advanced k times; from
\* 2008-01-01 one step gives the dates C7 lists.
C7_PaymentDatesAdvanceByStep ==
    ( /\ Returned("mortgage_payment_schedule")
      /\ self._payment_frequency \in Frequencies )
    => LET f == self._payment_frequency
           rows == result.value
       IN  /\ \A k \in 1..Len(rows) :
                rows[k].paymentData =
                    CalendarStep(f, IF k = 1 THEN self._first_payment_date
                                    ELSE rows[k - 1].paymentData)
           /\ (Len(rows) >= 1 /\ self._first_payment_date = <<2008, 1, 1>>)
                => rows[1].paymentData = StepFrom20080101(f)

\* C7 witness: a two-year quarterly schedule from 2008-01-01: the first
\* record is dated 2008-05-01 and the eighth 2010-09-01.
C7_Witness ==
    /\ Returned("mortgage_payment_schedule")
    /\ self._payment_frequency = MORTGAGEKIT_QUARTER
    /\ self._first_payment_date = <<2008, 1, 1>>
    /\ Len(result.value) = 8
    /\ result.value[1].paymentData = <<2008, 5, 1>>
    /\ result.value[8].paymentData = <<2010, 9, 1>>

\* C8: percent_of_loan_financed returns 0, without raising, for every
\* calculator whose total amount is 0, the one the constructor makes from
\* total_amount = 0 included, and otherwise (total - down payment) / total
\* * 100.
C8_PercentOfLoanFinanced ==
    Called("percent_of_loan_financed")
    => LET total == self._total_amount.amount
           down == self._down_payment_amount.amount
       IN  /\ result.kind = "return"
           /\ IF total = 0 THEN SameNumber(result.value, <<0, 1>>)
              ELSE SameNumber(result.value, <<(total - down) * 100, total>>)

\* C9: mortgage_payment_per_payment_frequency does not raise on a zero
\* denominator: whenever (1 + r)^n - 1 is 0, as it is when the number of
\* payments n is 0 or the periodic rate r is 0, it returns the payment 0
\* whatever the principal; a zero principal with a non-zero denominator
\* gives the payment 0 too.
C9_ZeroDenominatorGivesZeroPayment ==
    ( /\ Called("mortgage_payment_per_payment_frequency")
      /\ interest_rate_per_payment_frequency(self).kind = "return" )
    => LET r == interest_rate_per_payment_frequency(self).value
           n == self._amortization_year * self._payment_frequency
           p == self._loan_amount.amount
       IN  /\ result.kind = "return"
           /\ (Denominator(r, n) = 0 => result.value = 0)
           /\ ((n = 0 \/ r = 0) => Denominator(r, n) = 0)
           /\ ((p = 0 /\ Denominator(r, n) # 0) => result.value = 0)

\* C9 witness: a loan of a non-zero principal at the rate 0 over two years
\* of monthly payments: the denominator is 0 and the payment returned is 0.
C9_Witness ==
    /\ Returned("mortgage_payment_per_payment_frequency")
    /\ self._annual_interest_rate = 0
    /\ self._amortization_year = 2
    /\ self._payment_frequency = MORTGAGEKIT_MONTH
    /\ self._loan_amount.amount # 0
    /\ Denominator(interest_rate_per_payment_frequency(self).value, 24) = 0
    /\ result.value = 0

\* C10: the constructor succeeds when the first payment date is an
\* already-parsed date or datetime, as it does for a 'YYYY-MM-DD' string, and
\* the calculator then holds that calendar date as its first payment date.
C10_ConstructFromParsedDate ==
    ( /\ result.op = "__init__"
      /\ argv.type = "datetime" )
    => /\ result.kind = "return"
       /\ Constructed
       /\ self._first_payment_date = argv.date

\* A string in 'YYYY-MM-DD' form: ten characters, four digits of the year,
\* two of the month and two of the day, with "-" between them.
InYYYYMMDDForm(chars) ==
    /\ Len(chars) = 10
    /\ \A i \in {1, 2, 3, 4, 6, 7, 9, 10} : chars[i] \in Digits
    /\ chars[5] = "-" /\ chars[8] = "-"

\* C11: constructing a calculator with a first payment date that is a
\* string not in 'YYYY-MM-DD' form, or a value of the wrong kind such as the
\* integer 1234, fails at construction: the error reaches the caller, no
\* calculator is made and the input is not taken for some date.
C11_MalformedDateFailsConstruction ==
    ( /\ result.op = "__init__"
      /\ \/ argv.type = "int"
         \/ argv.type = "str" /\ ~InYYYYMMDDForm(argv.chars) )
    => /\ result.kind = "raise"
       /\ ~Constructed

RECURSIVE InterestSum(_, _, _)
\* the sum of the interest portions of the records lo..hi, by halves
InterestSum(rows, lo, hi) ==
    IF lo > hi THEN 0
    ELSE IF lo = hi THEN rows[lo].interest
    ELSE LET mid == (lo + hi) \div 2
         IN  InterestSum(rows, lo, mid) + InterestSum(rows, mid + 1, hi)

\* C12: in every schedule the k-th record's cumulative total paid
\* (totalPaidToBank) is k times the per-period payment and its cumulative
\* interest (totalPaidToInterest) is the sum of the interest portions of the
\* records 1..k; the last record's cumulative total paid is the payment
\* times total_number_of_payments, and every record carries the same
\* payment, the one mortgage_payment_per_payment_frequency returns.
C12_CumulativeTotals ==
    Returned("mortgage_payment_schedule")
    => LET rows == result.value
           n == total_number_of_payments_per_frequency(self).value
       IN  /\ \A k \in 1..Len(rows) :
                /\ rows[k].payment = Payment
                /\ rows[k].totalPaidToBank = k * Payment
                /\ rows[k].totalPaidToInterest = InterestSum(rows, 1, k)
           /\ Len(rows) >= 1 => rows[Len(rows)].totalPaidToBank = Payment * n

\* C12 witness: a two-year monthly schedule of a loan of 50000 at 4%: the
\* payment is positive, interest is paid in the first and the last period,
\* and the last record's total paid is 24 payments.
C12_Witness ==
    /\ Returned("mortgage_payment_schedule")
    /\ self._amortization_year = 2
    /\ self._payment_frequency = MORTGAGEKIT_MONTH
    /\ self._loan_amount.amount = AmountUnit
    /\ Payment > 0
    /\ Len(result.value) = 24
    /\ result.value[1].interest > 0
    /\ result.value[24].interest > 0
    /\ result.value[24].totalPaidToBank = 24 * Payment
    /\ result.value[24].totalPaidToInterest > result.value[23].totalPaidToInterest

RECURSIVE PrincipleSum(_, _, _)
\* the sum of the principal portions of the records lo..hi, by halves
PrincipleSum(rows, lo, hi) ==
    IF lo > hi THEN 0
    ELSE IF lo = hi THEN rows[lo].principle
    ELSE LET mid == (lo + hi) \div 2
         IN  PrincipleSum(rows, lo, mid) + PrincipleSum(rows, mid + 1, hi)

\* C13: the schedule is one forward unrolling from the principal (total -
\* down payment): with balance_0 the principal, for every record k >= 1 the
\* interest is balance_(k-1) times the periodic rate, the principal portion
\* is the payment less the interest, and the loan balance is balance_(k-1)
\* less the principal portion; so interest and principal portion add up to
\* the payment in every record and the principal portions of the records
\* 1..k add up to the principal less the k-th balance.  Nothing is corrected
\* afterwards: the last balance follows the same rule and is not set to 0.
\* The principal is the _loan_amount the constructor computed; it is total -
\* down payment as long as _total_amount holds the Money the constructor
\* stored (no method assigns either field).
C13_ForwardUnrolling ==
    Returned("mortgage_payment_schedule")
    => LET rows == result.value
           rate == interest_rate_per_payment_frequency(self).value
           principal == self._loan_amount.amount
           before(k) == IF k = 1 THEN principal ELSE rows[k - 1].loan_balance
       IN  /\ self._total_amount.type = "Money"
              => principal = self._total_amount.amount - self._down_payment_amount.amount
           /\ \A k \in 1..Len(rows) :
                /\ rows[k].interest = FMul(before(k), rate)
                /\ rows[k].principle = Payment - rows[k].interest
                /\ rows[k].loan_balance = before(k) - rows[k].principle
                /\ rows[k].interest + rows[k].principle = Payment
                /\ PrincipleSum(rows, 1, k) = principal - rows[k].loan_balance

\* C13 witness: a two-year monthly schedule of a loan of 50000 at 4%: the
\* balance falls with every record and the last balance, left as the
\* unrolling gives it, is not 0.
C13_Witness ==
    /\ Returned("mortgage_payment_schedule")
    /\ self._amortization_year = 2
    /\ self._payment_frequency = MORTGAGEKIT_MONTH
    /\ self._total_amount = Money(AmountUnit)
    /\ self._down_payment_amount = Money(0)
    /\ self._annual_interest_rate > 0
    /\ Len(result.value) = 24
    /\ result.value[1].loan_balance < AmountUnit
    /\ \A k \in 2..24 : result.value[k].loan_balance < result.value[k - 1].loan_balance
    /\ result.value[24].loan_balance # 0

====
